---- MODULE Spec2Model ----
(***************************************************************************)
(* Model of script.py: one archival run (main) moves the camera images of  *)
(* a batch of proctoring documents from the hot prefix of the bucket into  *)
(* one ZIP stored under the DEEP_ARCHIVE prefix, and records the batch in  *)
(* history.json.  The disk, the bucket, the document collection and        *)
(* history.json persist from one run to the next.                          *)
(*                                                                         *)
(* Sizes are counted in MiB (the source counts bytes).                     *)
(***************************************************************************)
EXTENDS Integers, Sequences, FiniteSets, TLC

(***************************************************************************)
(* Bounds of the model.                                                    *)
(***************************************************************************)
\* identifiers of the documents that can be inserted are 1..MaxId
MaxId == 2

(***************************************************************************)
(* Configuration (script.py lines 11-15) and literals of the code.         *)
(***************************************************************************)
BUCKET_NAME == "assess-platform-prod-user-data"
SOURCE_PREFIX == "proctoring/images/camera/u/"
DESTINATION_PREFIX == "proctoring/images/camera/u-glacier/"
LOCAL_TEMP_DIR == "temp/"
\* 10 * 1024 * 1024 * 1024 bytes, in MiB
SEGMENT_SIZE == 10 * 1024
\* ThreadPoolExecutor(max_workers=10)
max_workers == 10
\* delete_files_from_s3: batch_size = 1000
batch_size == 1000
\* .limit(1000) of the find query
find_limit == 1000
\* Python's None
None == "None"

(***************************************************************************)
(* The environment: values of singleAssessmentUser and the objects that    *)
(* may exist under the source prefix, with their sizes in MiB.  Line 157   *)
(* formats whatever value a document stores, the empty string included.    *)
(***************************************************************************)
Users == {"u1", "u2", ""}
\* the keys of the objects, in the order list_objects_v2 returns them
\* (ascending UTF-8 binary order of the key)
KeyOrder == << SOURCE_PREFIX \o "/a.jpg",
               SOURCE_PREFIX \o "u1/a.jpg",
               SOURCE_PREFIX \o "u1/d/b.jpg",
               SOURCE_PREFIX \o "u2/a.jpg" >>
AllKeys == {KeyOrder[i] : i \in 1..Len(KeyOrder)}
ObjectSize(key) ==
    IF key = SOURCE_PREFIX \o "u1/a.jpg" THEN 4096
    ELSE IF key = SOURCE_PREFIX \o "u1/d/b.jpg" THEN 7168
    ELSE 4096

(***************************************************************************)
(* Helpers for Python's string and list operations.                        *)
(***************************************************************************)
Min(a, b) == IF a <= b THEN a ELSE b
\* s[n:] for a string or a list
SliceFrom(s, n) == SubSeq(s, n + 1, Len(s))
\* s[:n]
Take(s, n) == SubSeq(s, 1, Min(n, Len(s)))
\* s.startswith(p)
StartsWith(s, p) == Len(p) <= Len(s) /\ SubSeq(s, 1, Len(p)) = p
\* the set of elements of a list
Range(s) == {s[i] : i \in 1..Len(s)}
Last(s) == s[Len(s)]

RECURSIVE SumSizes(_)
\* the sum of the sizes of a list of objects (summed by halves)
SumSizes(fs) ==
    IF fs = <<>> THEN 0
    ELSE IF Len(fs) = 1 THEN fs[1].Size
    ELSE LET h == Len(fs) \div 2
         IN  SumSizes(SubSeq(fs, 1, h)) + SumSizes(SubSeq(fs, h + 1, Len(fs)))

\* os.path.join(a, b) on POSIX
PathJoin(a, b) ==
    IF StartsWith(b, "/") THEN b
    ELSE IF a = "" \/ SubSeq(a, Len(a), Len(a)) = "/" THEN a \o b
    ELSE a \o "/" \o b

\* index of the last "/" of p, 0 when there is none
LastSlash(p) ==
    LET idx == {i \in 1..Len(p) : SubSeq(p, i, i) = "/"}
    IN  IF idx = {} THEN 0 ELSE CHOOSE i \in idx : \A j \in idx : j <= i
\* os.path.basename(p)
Basename(p) == SliceFrom(p, LastSlash(p))

(***************************************************************************)
(* ObjectId: a document identifier n is the ObjectId whose 12 bytes hold n *)
(* big-endian; str() prints 24 hex digits and ObjectId(s) parses them.     *)
(***************************************************************************)
HexDigits == "0123456789abcdef"
HexDigit(d) == SubSeq(HexDigits, d + 1, d + 1)
HexValue(c) == CHOOSE d \in 0..15 : HexDigit(d) = c
\* str(ObjectId)
ObjectIdStr(n) ==
    "0000000000000000000000" \o HexDigit((n \div 16) % 16) \o HexDigit(n % 16)
\* ObjectId(s)
ObjectId(s) ==
    16 * HexValue(SubSeq(s, Len(s) - 1, Len(s) - 1)) + HexValue(SubSeq(s, Len(s), Len(s)))

(***************************************************************************)
(* State.                                                                  *)
(***************************************************************************)
VARIABLES
    \* persistent state
    history_file,       \* history.json: [exists, data], data the list of records
    proctoringmedias,   \* the MongoDB collection: set of [_id, singleAssessmentUser]
    s3_source,          \* keys of the objects under SOURCE_PREFIX in the bucket
    s3_glacier,         \* objects uploaded under DESTINATION_PREFIX
    local_files,        \* paths of the downloaded files on the local disk
    local_zips,         \* ZIP files on the local disk: set of [path, members]
    \* state of the current (or last) run of main
    pc,                 \* position in main
    exit_status,        \* how the last run ended
    failure,            \* the call that raised in this run, "none" if none did
    first_id,           \* main: first_id, the last_id read from history.json
    proctoring_medias,  \* main: the documents of the batch, in _id order
    files,              \* main: the listed objects, [Key, Size]
    future,             \* download_segment: state of the future of files[i]
    downloaded_files,   \* download_segment: downloaded_files (main: segment_files)
    total_size,         \* download_segment: total_size (main: segment_size)
    upload_result,      \* outcome of s3.upload_file: "none", "ok", "failed"
    delete_i,           \* delete_files_from_s3: the loop index i
    delete_requests,    \* the Objects lists passed to s3.delete_objects, in order
    delete_responses    \* the Deleted lists of the responses, in order

persistent == <<history_file, proctoringmedias, s3_source, s3_glacier,
                local_files, local_zips>>
transfer == <<future, downloaded_files, total_size>>
sweep == <<upload_result, delete_i, delete_requests, delete_responses>>
vars == <<history_file, proctoringmedias, s3_source, s3_glacier, local_files,
          local_zips, pc, exit_status, failure, first_id, proctoring_medias,
          files, future, downloaded_files, total_size, upload_result,
          delete_i, delete_requests, delete_responses>>

Documents == [_id : 1..MaxId, singleAssessmentUser : Users]

Init ==
    /\ history_file = [exists |-> FALSE, data |-> <<>>]
    /\ proctoringmedias = {}
    /\ s3_source \in SUBSET AllKeys
    /\ s3_glacier = {}
    /\ local_files = {}
    /\ local_zips = {}
    /\ pc = "idle"
    /\ exit_status = "none"
    /\ failure = "none"
    /\ first_id = None
    /\ proctoring_medias = <<>>
    /\ files = <<>>
    /\ future = <<>>
    /\ downloaded_files = <<>>
    /\ total_size = 0
    /\ upload_result = "none"
    /\ delete_i = 0
    /\ delete_requests = <<>>
    /\ delete_responses = <<>>

(***************************************************************************)
(* The platform inserts a proctoring document while no run is in progress. *)
(***************************************************************************)
InsertDocument ==
    /\ pc = "idle"
    /\ \E d \in Documents :
        /\ \A e \in proctoringmedias : e._id # d._id
        /\ proctoringmedias' = proctoringmedias \cup {d}
    /\ UNCHANGED <<history_file, s3_source, s3_glacier, local_files, local_zips,
                   pc, exit_status, failure, first_id, proctoring_medias, files,
                   transfer, sweep>>

(***************************************************************************)
(* update_history_file (lines 20-38) and the query of main (147-149).      *)
(***************************************************************************)
\* the file rewritten with the new record only
update_history_file_overwrite(first, last, total) ==
    [exists |-> TRUE,
     data |-> <<[first_id |-> ObjectIdStr(first),
                 last_id |-> ObjectIdStr(last),
                 total |-> total]>>]

\* the list history.json holds after update_history_file(first, last, total)
update_history_file(first, last, total) ==
    LET history_data == IF history_file.exists THEN history_file.data ELSE <<>>
    IN  [exists |-> TRUE,
         data |-> Append(history_data,
                         [first_id |-> ObjectIdStr(first),
                          last_id |-> ObjectIdStr(last),
                          total |-> total])]

\* findQuery with $gte in place of $gt
findQuery_gte(fid, d) == IF fid # None THEN d._id >= ObjectId(fid) ELSE TRUE

\* findQuery: does document d match the query built from first_id
findQuery(fid, d) == IF fid # None THEN d._id > ObjectId(fid) ELSE TRUE

RECURSIVE SortById(_)
\* .sort({"_id": 1})
SortById(S) ==
    IF S = {} THEN <<>>
    ELSE LET m == CHOOSE d \in S : \A e \in S : d._id <= e._id
         IN  <<m>> \o SortById(S \ {m})

\* the query with an empty filter whatever the resume point
Find_unfiltered(fid) == Take(SortById(proctoringmedias), find_limit)

\* list(proctoringmedias.find(findQuery, ...).sort({"_id":1}).limit(1000))
Find(fid) ==
    Take(SortById({d \in proctoringmedias : findQuery(fid, d)}), find_limit)

\* main lines 128-147: a run starts and reads the resume point
main_read_history ==
    /\ pc = "idle"
    /\ first_id' = IF history_file.exists
                   THEN Last(history_file.data).last_id
                   ELSE None
    /\ pc' = "find"
    /\ exit_status' = "running"
    /\ failure' = "none"
    /\ proctoring_medias' = <<>>
    /\ files' = <<>>
    /\ future' = <<>>
    /\ downloaded_files' = <<>>
    /\ total_size' = 0
    /\ upload_result' = "none"
    /\ delete_i' = 0
    /\ delete_requests' = <<>>
    /\ delete_responses' = <<>>
    /\ UNCHANGED persistent

\* main lines 149-154: the query returns nothing, the run returns
main_find_none ==
    /\ pc = "find"
    /\ Find(first_id) = <<>>
    /\ proctoring_medias' = <<>>
    /\ pc' = "idle"
    /\ exit_status' = "no_documents"
    /\ UNCHANGED <<persistent, failure, first_id, files, transfer, sweep>>

\* main lines 149-155: the query returns a batch, which is recorded in history.json
main_find_update_history ==
    /\ pc = "find"
    /\ Find(first_id) # <<>>
    /\ proctoring_medias' = Find(first_id)
    /\ history_file' = update_history_file(proctoring_medias'[1]._id,
                                           Last(proctoring_medias')._id,
                                           Len(proctoring_medias'))
    /\ pc' = "list"
    /\ UNCHANGED <<proctoringmedias, s3_source, s3_glacier, local_files,
                   local_zips, exit_status, failure, first_id, files,
                   transfer, sweep>>

(***************************************************************************)
(* get_files_to_download (lines 42-52) and main lines 157-162.             *)
(***************************************************************************)
\* the prefix main derives from one document
source_prefix(d) == "proctoring/images/camera/u/" \o d.singleAssessmentUser \o "/"

\* all pages of list_objects_v2 for one prefix, as [Key, Size] items
ListObjects(prefix) ==
    LET keys == SelectSeq(KeyOrder,
                          LAMBDA k : k \in s3_source /\ StartsWith(k, prefix))
    IN  [i \in 1..Len(keys) |-> [Key |-> keys[i], Size |-> ObjectSize(keys[i])]]

RECURSIVE get_files_to_download(_)
\* the items of each prefix of the list, one prefix after the other
get_files_to_download(prefixes) ==
    IF prefixes = <<>> THEN <<>>
    ELSE ListObjects(prefixes[1]) \o get_files_to_download(Tail(prefixes))

source_prefixes ==
    [i \in 1..Len(proctoring_medias) |-> source_prefix(proctoring_medias[i])]

\* f"{first _id}-{last _id}.zip"
zip_file_name ==
    ObjectIdStr(proctoring_medias[1]._id) \o "-"
        \o ObjectIdStr(Last(proctoring_medias)._id) \o ".zip"
zip_path == PathJoin(LOCAL_TEMP_DIR, zip_file_name)

\* main lines 157-165, download_segment line 74: the objects are listed and
\* one download is submitted to the executor for each of them
main_list_submit ==
    /\ pc = "list"
    /\ files' = get_files_to_download(source_prefixes)
    /\ future' = [i \in 1..Len(files') |-> "pending"]
    /\ downloaded_files' = <<>>
    /\ total_size' = 0
    /\ pc' = "download"
    /\ UNCHANGED <<persistent, exit_status, failure, first_id,
                   proctoring_medias, sweep>>

(***************************************************************************)
(* download_segment (lines 57-81).                                         *)
(***************************************************************************)
\* download_file: the local path of an object
local_path(file) ==
    PathJoin(LOCAL_TEMP_DIR, SliceFrom(file.Key, Len(SOURCE_PREFIX)))

Running == {i \in DOMAIN future : future[i] = "running"}

\* a free worker thread takes the next queued download
worker_start(i) ==
    /\ pc \in {"download", "shutdown"}
    /\ future[i] = "pending"
    /\ \A j \in 1..(i - 1) : future[j] # "pending"
    /\ Cardinality(Running) < max_workers
    /\ future' = [future EXCEPT ![i] = "running"]
    /\ UNCHANGED <<persistent, pc, exit_status, failure, first_id,
                   proctoring_medias, files, downloaded_files, total_size, sweep>>

\* download_file returns: the object is on the local disk
worker_done(i) ==
    /\ pc \in {"download", "shutdown"}
    /\ future[i] = "running"
    /\ future' = [future EXCEPT ![i] = "done"]
    /\ local_files' = local_files \cup {local_path(files[i])}
    /\ UNCHANGED <<history_file, proctoringmedias, s3_source, s3_glacier,
                   local_zips, pc, exit_status, failure, first_id,
                   proctoring_medias, files, downloaded_files, total_size, sweep>>

\* s3.download_file raises in the worker: nothing is written
worker_raise(i) ==
    /\ pc \in {"download", "shutdown"}
    /\ future[i] = "running"
    /\ future' = [future EXCEPT ![i] = "raised"]
    /\ UNCHANGED <<persistent, pc, exit_status, failure, first_id,
                   proctoring_medias, files, downloaded_files, total_size, sweep>>

\* the total overwritten by the size of the result instead of increased by it
as_completed_result_lost_update(i) ==
    /\ pc = "download"
    /\ future[i] = "done"
    /\ future' = [future EXCEPT ![i] = "yielded"]
    /\ total_size' = files[i].Size
    /\ downloaded_files' = Append(downloaded_files, local_path(files[i]))
    /\ UNCHANGED <<persistent, pc, exit_status, failure, first_id,
                   proctoring_medias, files, sweep>>

\* lines 75-78: as_completed yields a future that returned
as_completed_result(i) ==
    /\ pc = "download"
    /\ future[i] = "done"
    /\ future' = [future EXCEPT ![i] = "yielded"]
    /\ total_size' = total_size + files[i].Size
    /\ downloaded_files' = Append(downloaded_files, local_path(files[i]))
    /\ UNCHANGED <<persistent, pc, exit_status, failure, first_id,
                   proctoring_medias, files, sweep>>

\* the exception of the download is swallowed and the loop goes on
as_completed_raise_swallowed(i) ==
    /\ pc = "download"
    /\ future[i] = "raised"
    /\ future' = [future EXCEPT ![i] = "yielded"]
    /\ failure' = "download_file"
    /\ UNCHANGED <<persistent, pc, exit_status, first_id, proctoring_medias,
                   files, downloaded_files, total_size, sweep>>

\* line 76: future.result() re-raises the exception of the download; the
\* with block then waits for the downloads still queued or running
as_completed_raise(i) ==
    /\ pc = "download"
    /\ future[i] = "raised"
    /\ pc' = "shutdown"
    /\ failure' = "download_file"
    /\ UNCHANGED <<persistent, exit_status, first_id, proctoring_medias, files,
                   transfer, sweep>>

\* the executor has shut down and the exception leaves main
download_segment_raise ==
    /\ pc = "shutdown"
    /\ \A i \in DOMAIN future : future[i] \notin {"pending", "running"}
    /\ pc' = "idle"
    /\ exit_status' = "raised"
    /\ UNCHANGED <<persistent, failure, first_id, proctoring_medias, files,
                   transfer, sweep>>

\* line 81 and main 165-168: every future was yielded but there was none
main_no_files ==
    /\ pc = "download"
    /\ \A i \in DOMAIN future : future[i] = "yielded"
    /\ downloaded_files = <<>>
    /\ pc' = "idle"
    /\ exit_status' = "no_files"
    /\ UNCHANGED <<persistent, failure, first_id, proctoring_medias, files,
                   transfer, sweep>>

\* line 81 and main 165-173: download_segment returns a non-empty segment
main_segment ==
    /\ pc = "download"
    /\ \A i \in DOMAIN future : future[i] = "yielded"
    /\ downloaded_files # <<>>
    /\ pc' = "compress"
    /\ UNCHANGED <<persistent, exit_status, failure, first_id,
                   proctoring_medias, files, transfer, sweep>>

\* main: segment_files, segment_size
segment_files == downloaded_files
segment_size == total_size

(***************************************************************************)
(* compress_files (lines 83-90).                                           *)
(***************************************************************************)
\* line 88: the name of a file within the ZIP
arcname(file) == SliceFrom(file, Len(LOCAL_TEMP_DIR))

\* the members zipf.write adds for a list of files, in order
zip_members(fs) == [i \in 1..Len(fs) |-> arcname(fs[i])]

\* ZipFile(output_zip, 'w'): a file of that path is replaced
write_zip(path, members) ==
    {z \in local_zips : z.path # path} \cup {[path |-> path, members |-> members]}

\* main line 176: every file of the segment is added and the ZIP is closed
compress_files ==
    /\ pc = "compress"
    /\ local_zips' = write_zip(zip_path, zip_members(segment_files))
    /\ pc' = "upload"
    /\ UNCHANGED <<history_file, proctoringmedias, s3_source, s3_glacier,
                   local_files, exit_status, failure, first_id,
                   proctoring_medias, files, transfer, sweep>>

\* compress_files raises and the exception leaves main.  Either ZipFile()
\* of line 85 raises and the disk is left as it was, or zipf.write of line 90
\* raises and the with statement closes the ZIP with the n members it lists:
\* the members written before (the file is missing: zipf.write raises before
\* it adds the member) and also the member that failed (its file cannot be
\* read: the member was added before the copy raised).  A file the close
\* leaves unreadable as a ZIP is a ZIP that lists no member.
compress_files_raise ==
    /\ pc = "compress"
    /\ \/ local_zips' = local_zips
       \/ \E n \in 0..Len(segment_files) :
            local_zips' = write_zip(zip_path, zip_members(Take(segment_files, n)))
    /\ failure' = "compress_files"
    /\ pc' = "idle"
    /\ exit_status' = "raised"
    /\ UNCHANGED <<history_file, proctoringmedias, s3_source, s3_glacier,
                   local_files, first_id, proctoring_medias, files, transfer,
                   sweep>>

(***************************************************************************)
(* upload_to_s3 (lines 92-102).                                            *)
(***************************************************************************)
destination_key == DESTINATION_PREFIX \o Basename(zip_path)

\* the ZIP on the local disk at zip_path
local_zip == CHOOSE z \in local_zips : z.path = zip_path

\* lines 97-100: s3.upload_file returns, the originals are deleted next
upload_to_s3 ==
    /\ pc = "upload"
    /\ s3_glacier' = {o \in s3_glacier : o.Key # destination_key}
                        \cup {[Key |-> destination_key,
                               StorageClass |-> "DEEP_ARCHIVE",
                               members |-> local_zip.members]}
    /\ upload_result' = "ok"
    /\ delete_i' = 0
    /\ pc' = "delete"
    /\ UNCHANGED <<history_file, proctoringmedias, s3_source, local_files,
                   local_zips, exit_status, failure, first_id,
                   proctoring_medias, files, transfer, delete_requests,
                   delete_responses>>

\* the except clause with the delete moved out of the try block
upload_to_s3_except_then_delete ==
    /\ pc = "upload"
    /\ upload_result' = "failed"
    /\ failure' = "upload_file"
    /\ delete_i' = 0
    /\ pc' = "delete"
    /\ UNCHANGED <<persistent, exit_status, first_id, proctoring_medias, files,
                   transfer, delete_requests, delete_responses>>

\* lines 101-102: s3.upload_file raises, the exception is printed
upload_to_s3_except ==
    /\ pc = "upload"
    /\ upload_result' = "failed"
    /\ failure' = "upload_file"
    /\ pc' = "cleanup"
    /\ UNCHANGED <<persistent, exit_status, first_id, proctoring_medias, files,
                   transfer, delete_i, delete_requests, delete_responses>>

(***************************************************************************)
(* delete_files_from_s3 (lines 104-113), called with the segment's files.  *)
(***************************************************************************)
\* the slice taken one element too long
batch_files_overlap(fs, i) == SubSeq(fs, i + 1, Min(i + batch_size + 1, Len(fs)))

\* line 109: files[i:i+batch_size]
batch_files(fs, i) == SubSeq(fs, i + 1, Min(i + batch_size, Len(fs)))

\* line 110: the key rebuilt from a local path
delete_key(file) == SOURCE_PREFIX \o SliceFrom(file, Len(LOCAL_TEMP_DIR))

objects_to_delete(fs, i) ==
    LET b == batch_files(fs, i) IN [j \in 1..Len(b) |-> delete_key(b[j])]

\* lines 108-113: one bulk delete; the store deletes and confirms the keys
\* of D and reports an error for the other keys of the request
delete_files_from_s3_batch ==
    /\ pc = "delete"
    /\ delete_i < Len(segment_files)
    /\ LET request == objects_to_delete(segment_files, delete_i)
       IN  \E D \in SUBSET Range(request) :
            /\ s3_source' = s3_source \ D
            /\ delete_requests' = Append(delete_requests, request)
            /\ delete_responses' =
                   Append(delete_responses, SelectSeq(request, LAMBDA k : k \in D))
    /\ delete_i' = delete_i + batch_size
    /\ UNCHANGED <<history_file, proctoringmedias, s3_glacier, local_files,
                   local_zips, pc, exit_status, failure, first_id,
                   proctoring_medias, files, transfer, upload_result>>

\* s3.delete_objects raises: the except clause of upload_to_s3 prints it
delete_files_from_s3_raise ==
    /\ pc = "delete"
    /\ delete_i < Len(segment_files)
    /\ delete_requests' =
           Append(delete_requests, objects_to_delete(segment_files, delete_i))
    /\ failure' = "delete_objects"
    /\ pc' = "cleanup"
    /\ UNCHANGED <<persistent, exit_status, first_id, proctoring_medias, files,
                   transfer, upload_result, delete_i, delete_responses>>

\* the loop of line 108 ends and upload_to_s3 returns
delete_files_from_s3_return ==
    /\ pc = "delete"
    /\ delete_i >= Len(segment_files)
    /\ pc' = "cleanup"
    /\ UNCHANGED <<persistent, exit_status, failure, first_id,
                   proctoring_medias, files, transfer, sweep>>

(***************************************************************************)
(* cleanup_local_files (lines 115-125) and the end of main (180-189).      *)
(***************************************************************************)
cleanup_local_files ==
    /\ pc = "cleanup"
    /\ local_files' = local_files \ Range(segment_files)
    /\ local_zips' = {z \in local_zips : z.path # zip_path}
    /\ files' = SliceFrom(files, Len(segment_files))
    /\ pc' = "idle"
    /\ exit_status' = "completed"
    /\ UNCHANGED <<history_file, proctoringmedias, s3_source, s3_glacier,
                   failure, first_id, proctoring_medias, transfer, sweep>>

(***************************************************************************)
(* Specification.                                                          *)
(***************************************************************************)
Next ==
    \/ InsertDocument
    \/ main_read_history
    \/ main_find_none
    \/ main_find_update_history
    \/ main_list_submit
    \/ \E i \in DOMAIN future : worker_start(i)
    \/ \E i \in DOMAIN future : worker_done(i)
    \/ \E i \in DOMAIN future : worker_raise(i)
    \/ \E i \in DOMAIN future : as_completed_result(i)
    \/ \E i \in DOMAIN future : as_completed_raise(i)
    \/ download_segment_raise
    \/ main_no_files
    \/ main_segment
    \/ compress_files
    \/ compress_files_raise
    \/ upload_to_s3
    \/ upload_to_s3_except
    \/ delete_files_from_s3_batch
    \/ delete_files_from_s3_raise
    \/ delete_files_from_s3_return
    \/ cleanup_local_files

Spec == Init /\ [][Next]_vars

TypeOK ==
    /\ pc \in {"idle", "find", "list", "download", "shutdown", "compress",
               "upload", "delete", "cleanup"}
    /\ exit_status \in {"none", "running", "no_documents", "no_files",
                        "raised", "completed"}
    /\ failure \in {"none", "download_file", "compress_files", "upload_file",
                    "delete_objects"}
    /\ s3_source \subseteq AllKeys
    /\ proctoringmedias \subseteq Documents

(***************************************************************************)
(* Properties.                                                             *)
(***************************************************************************)
\* the resume point a run starting now would read
LastCursor ==
    IF history_file.exists THEN Last(history_file.data).last_id ELSE None

\* history.json holds the record of the batch of this run
BatchRecorded ==
    /\ proctoring_medias # <<>>
    /\ \E r \in Range(history_file.data) :
        /\ r.first_id = ObjectIdStr(proctoring_medias[1]._id)
        /\ r.last_id = ObjectIdStr(Last(proctoring_medias)._id)

\* the archive of this run is in the archival tier
ArchiveUploaded ==
    /\ proctoring_medias # <<>>
    /\ \E o \in s3_glacier : o.Key = destination_key

\* some bulk delete confirmed fewer keys than it requested
PartialDelete ==
    \E j \in DOMAIN delete_responses :
        Len(delete_responses[j]) < Len(delete_requests[j])

\* every bulk delete of the segment was issued and confirmed all its keys
DeleteConfirmed ==
    /\ upload_result = "ok"
    /\ pc \in {"cleanup", "idle"}
    /\ failure = "none"
    /\ delete_requests # <<>>
    /\ delete_responses = delete_requests

\* C1: a bulk delete is issued only once the upload of the archive has
\* returned successfully, and a run whose upload raised issues no delete
C1_DeleteOnlyAfterUpload ==
    /\ delete_requests # <<>> => upload_result = "ok" /\ ArchiveUploaded
    /\ upload_result = "failed" => delete_requests = <<>>

\* a run whose upload raised has ended, with the originals still in place
C1_Witness ==
    /\ pc = "idle"
    /\ upload_result = "failed"
    /\ exit_status = "completed"
    /\ segment_files # <<>>

\* C2: history.json holds the record of a batch only after the delete step
\* has confirmed the deletion of all the originals of that batch
C2_CheckpointAfterDelete == BatchRecorded => DeleteConfirmed

\* C3: after a run in which the download, the compression, the upload or the
\* delete failed, the resume point is the one the run started from
C3_FailedRunKeepsCursor ==
    (pc = "idle" /\ failure # "none") => LastCursor = first_id

\* C4: when a download or the compression failed, no archive is uploaded
\* and no delete is requested in that run
C4_NoPartialSegment ==
    failure \in {"download_file", "compress_files"} =>
        /\ upload_result = "none"
        /\ ~ArchiveUploaded
        /\ delete_requests = <<>>

\* a run ended on a failed download after other downloads were collected
C4_Witness ==
    /\ pc = "idle"
    /\ exit_status = "raised"
    /\ failure = "download_file"
    /\ downloaded_files # <<>>
    /\ \E i \in DOMAIN future : future[i] = "raised"

\* C5: at the end of a run in which a bulk delete confirmed only part of its
\* keys, history.json holds no record of the batch
C5_PartialDeleteNoCheckpoint ==
    (pc = "idle" /\ PartialDelete) => ~BatchRecorded

\* C6: at the end of a run every key a bulk delete left unconfirmed was
\* requested again, and a run that reports the segment completed has none of
\* the keys it requested left in the hot tier
C6_UnconfirmedRetried ==
    pc = "idle" =>
        /\ \A j \in DOMAIN delete_responses :
            \A k \in Range(delete_requests[j]) \ Range(delete_responses[j]) :
                \E j2 \in DOMAIN delete_requests :
                    j2 > j /\ k \in Range(delete_requests[j2])
        /\ (exit_status = "completed" /\ failure = "none"
                /\ delete_requests # <<>>) =>
            \A j \in DOMAIN delete_requests :
                Range(delete_requests[j]) \cap s3_source = {}

\* C7: the members of the archive written by compress_files are the keys of
\* the listed objects, each once
C7_MembersAreSegmentKeys ==
    pc = "upload" =>
        LET members == local_zip.members
        IN  /\ \A i, j \in DOMAIN members : i # j => members[i] # members[j]
            /\ {SOURCE_PREFIX \o members[i] : i \in DOMAIN members}
                   = {files[i].Key : i \in DOMAIN files}

\* C8: the segment that is compressed, uploaded and deleted is at most
\* SEGMENT_SIZE large
C8_SegmentWithinBudget ==
    pc \in {"compress", "upload", "delete", "cleanup"} =>
        segment_size <= SEGMENT_SIZE

RECURSIVE buildSegment(_, _)
\* the longest prefix of the candidates whose sizes add up to the budget at most
buildSegment(candidates, budget) ==
    IF candidates = <<>> \/ candidates[1].Size > budget THEN <<>>
    ELSE <<candidates[1]>>
            \o buildSegment(Tail(candidates), budget - candidates[1].Size)

\* C9: the segment is the longest prefix of the candidates within the budget
C9_SegmentIsLongestPrefix ==
    pc = "compress" =>
        LET segment == buildSegment(files, SEGMENT_SIZE)
        IN  /\ Len(segment_files) = Len(segment)
            /\ Range(segment_files)
                   = {local_path(segment[i]) : i \in DOMAIN segment}

\* C10: the last_id values of history.json are strictly increasing, and the
\* record of a batch holds the largest identifier of the batch, every
\* identifier of which is above the resume point
C10_LastIdIncreasing ==
    /\ \A i \in 1..(Len(history_file.data) - 1) :
        ObjectId(history_file.data[i].last_id)
            < ObjectId(history_file.data[i + 1].last_id)
    /\ proctoring_medias # <<>> =>
        /\ Last(history_file.data).last_id
               = ObjectIdStr(Last(proctoring_medias)._id)
        /\ \A i \in DOMAIN proctoring_medias :
            /\ proctoring_medias[i]._id <= Last(proctoring_medias)._id
            /\ first_id # None => proctoring_medias[i]._id > ObjectId(first_id)

\* a second run has appended its record
C10_Witness ==
    /\ Len(history_file.data) >= 2
    /\ pc = "idle"
    /\ first_id # None

\* no document lies beyond the resume point
NoNewDocuments ==
    \A d \in proctoringmedias :
        history_file.exists /\ d._id <= ObjectId(LastCursor)

\* C11: a run that starts with no document beyond the resume point changes
\* neither history.json, the bucket, the collection nor the local disk, and
\* returns at the query without fetching anything
C11_RerunIsNoOp ==
    [][(NoNewDocuments /\ pc \in {"idle", "find"} /\ pc' # pc) =>
          /\ persistent' = persistent
          /\ pc = "find" =>
                /\ pc' = "idle"
                /\ exit_status' = "no_documents"
                /\ files' = <<>>
                /\ upload_result' = "none"
                /\ delete_requests' = <<>>]_vars

\* a run has returned at the query although a checkpoint and documents exist
C11_Witness ==
    /\ pc = "idle"
    /\ exit_status = "no_documents"
    /\ history_file.exists
    /\ proctoringmedias # {}
    /\ NoNewDocuments

\* C12: a run whose listing returned no object ends without having written
\* a record to history.json
C12_EmptyListingNoCheckpoint ==
    (pc = "idle" /\ exit_status = "no_files") =>
        /\ LastCursor = first_id
        /\ ~BatchRecorded

\* C13: at the end of a run whose upload raised, the ZIP is still on the
\* local disk
C13_ArchiveRetainedOnUploadFailure ==
    (pc = "idle" /\ upload_result = "failed") =>
        \E z \in local_zips : z.path = zip_path

\* the local paths of the objects this run has downloaded
DownloadedPaths ==
    Range(downloaded_files)
        \cup {local_path(files[i]) :
                i \in {j \in DOMAIN files \cap DOMAIN future :
                          future[j] \in {"done", "yielded"}}}

\* C14: when a run has ended, no local copy of an object it downloaded is
\* left on the local disk
C14_ScratchCleanedOnEveryExit ==
    (pc = "idle" /\ exit_status \in {"completed", "raised", "no_files"}) =>
        DownloadedPaths \cap local_files = {}

\* C15: a run in which a download, the compression, the upload or the delete
\* raised does not end on the normal completion path
C15_FailureNeverCompletes ==
    (pc = "idle" /\ exit_status = "completed") => failure = "none"

(***************************************************************************)
(* delete_files_from_s3 on its own: the specification starts where         *)
(* upload_to_s3 calls it (line 100), with lists of files of the lengths of *)
(* DeleteLengths (the empty list is an input of the function that main     *)
(* never passes), and runs the delete loop and the rest of main.           *)
(***************************************************************************)
DeleteLengths ==
    {0, 1, batch_size - 1, batch_size, batch_size + 1,
     batch_size + batch_size \div 2, 2 * batch_size, 2 * batch_size + 1}

\* n listed objects: the objects of KeyOrder, over and over
ListedFiles(n) ==
    [i \in 1..n |->
        LET k == KeyOrder[((i - 1) % Len(KeyOrder)) + 1]
        IN  [Key |-> k, Size |-> ObjectSize(k)]]

InitDelete ==
    \E n \in DeleteLengths :
        LET listed == ListedFiles(n)
            batch == <<[_id |-> 1, singleAssessmentUser |-> "u1"]>>
            name == PathJoin(LOCAL_TEMP_DIR,
                             ObjectIdStr(1) \o "-" \o ObjectIdStr(1) \o ".zip")
            paths == [i \in 1..n |-> local_path(listed[i])]
        IN  /\ proctoringmedias = Range(batch)
            /\ proctoring_medias = batch
            /\ history_file = [exists |-> TRUE,
                               data |-> <<[first_id |-> ObjectIdStr(1),
                                           last_id |-> ObjectIdStr(1),
                                           total |-> 1]>>]
            /\ first_id = None
            /\ s3_source = AllKeys
            /\ files = listed
            /\ future = [i \in 1..n |-> "yielded"]
            /\ downloaded_files = paths
            /\ total_size = SumSizes(listed)
            /\ local_files = Range(paths)
            /\ local_zips = {[path |-> name, members |-> zip_members(paths)]}
            /\ s3_glacier = {[Key |-> DESTINATION_PREFIX \o Basename(name),
                              StorageClass |-> "DEEP_ARCHIVE",
                              members |-> zip_members(paths)]}
            /\ upload_result = "ok"
            /\ pc = "delete"
            /\ exit_status = "running"
            /\ failure = "none"
            /\ delete_i = 0
            /\ delete_requests = <<>>
            /\ delete_responses = <<>>

NextDelete ==
    \/ delete_files_from_s3_batch
    \/ delete_files_from_s3_raise
    \/ delete_files_from_s3_return
    \/ cleanup_local_files

SpecDelete == InitDelete /\ [][NextDelete]_vars

RECURSIVE Flatten(_)
\* the lists of a list, one after the other
Flatten(ss) == IF ss = <<>> THEN <<>> ELSE ss[1] \o Flatten(Tail(ss))

\* C16: the bulk-delete requests are consecutive slices of the input of at
\* most batch_size keys, full but for the last, and once the loop has ended
\* they are ceil(n / batch_size) requests that hold every key exactly once
C16_DeleteBatches ==
    LET requested == Flatten(delete_requests)
        n == Len(segment_files)
    IN  /\ \A j \in DOMAIN delete_requests :
            /\ Len(delete_requests[j]) >= 1
            /\ Len(delete_requests[j]) <= batch_size
            /\ j < Len(delete_requests) => Len(delete_requests[j]) = batch_size
        /\ Len(requested) <= n
        /\ requested = [i \in 1..Len(requested) |-> delete_key(segment_files[i])]
        /\ (pc \in {"cleanup", "idle"} /\ failure = "none") =>
            /\ Len(requested) = n
            /\ Len(delete_requests) = (n + batch_size - 1) \div batch_size

\* 1500 keys were deleted in two requests of 1000 and 500 keys
C16_Witness ==
    /\ pc = "cleanup"
    /\ failure = "none"
    /\ Len(segment_files) = 1500
    /\ Len(delete_requests) = 2
    /\ Len(delete_requests[1]) = 1000
    /\ Len(delete_requests[2]) = 500

\* C17: a write of history.json keeps the records it held, in order, and
\* adds one record at the end; a run that starts resumes from the last_id of
\* the last record
C17_AppendOnly ==
    [][/\ history_file' # history_file =>
            /\ history_file'.exists
            /\ Len(history_file'.data) = Len(history_file.data) + 1
            /\ SubSeq(history_file'.data, 1, Len(history_file.data))
                   = history_file.data
       /\ (pc = "idle" /\ pc' = "find") => first_id' = LastCursor]_vars

\* a run that resumed from a first record has appended a second one
C17_Witness ==
    /\ pc = "list"
    /\ Len(history_file.data) >= 2
    /\ first_id = history_file.data[Len(history_file.data) - 1].last_id

\* C18: the members of the archive are in the order of the listing
C18_MemberOrderIsListingOrder ==
    pc = "upload" =>
        local_zip.members
            = [i \in DOMAIN files |-> SliceFrom(files[i].Key, Len(SOURCE_PREFIX))]

\* the number of times x occurs in a list
Count(seq, x) == Cardinality({i \in DOMAIN seq : seq[i] = x})

\* C19: when download_segment returns, its list holds the local path of
\* every submitted record once per record and its total is the sum of the
\* sizes of the records
C19_AggregationExact ==
    pc = "compress" =>
        /\ Len(downloaded_files) = Len(files)
        /\ \A i \in DOMAIN files :
            Count(downloaded_files, local_path(files[i]))
                = Cardinality({j \in DOMAIN files :
                                  local_path(files[j]) = local_path(files[i])})
        /\ total_size = SumSizes(files)

\* download_segment has returned after the downloads completed out of order
C19_Witness ==
    /\ pc = "compress"
    /\ Len(files) >= 2
    /\ downloaded_files[1] = local_path(files[2])
    /\ downloaded_files[1] # local_path(files[1])

\* C20: every key of a bulk delete is the key of an object that was
\* downloaded in this run and is a member of the uploaded archive
C20_DeletedKeysAreArchived ==
    pc \in {"delete", "cleanup"} =>
        \A j \in DOMAIN delete_requests :
            \A k \in Range(delete_requests[j]) :
                /\ upload_result = "ok"
                /\ \E i \in DOMAIN files :
                    /\ files[i].Key = k
                    /\ future[i] = "yielded"
                    /\ local_path(files[i]) \in Range(segment_files)
                /\ \E o \in s3_glacier :
                    /\ o.Key = destination_key
                    /\ SliceFrom(k, Len(SOURCE_PREFIX)) \in Range(o.members)

====
